---- MODULE Spec2Model ----
(***************************************************************************)
(* VictoryLine (src/components/victory-line/victory-line.jsx): the data-   *)
(* to-geometry pipeline of one mounted component.  A render pass turns the *)
(* props and the per-index ElementState into line segments, markers,       *)
(* labels and a series label; event handlers store partial props in        *)
(* ElementState and the component renders again.                           *)
(*                                                                         *)
(* JavaScript values that may be null, undefined, a number, a string or a  *)
(* boolean are tagged tuples (Null, Undefined, Num(n), Str(s), True).      *)
(* Objects are functions from their keys to values; the empty object and   *)
(* an absent (undefined) object spread the same way and are both <<>>.     *)
(* Arrays are sequences; the JavaScript index j is position j + 1.         *)
(***************************************************************************)
EXTENDS Integers, Sequences, FiniteSets, TLC

VARIABLES props, state, mounted, out, nEvents, again

vars == <<props, state, mounted, out, nEvents, again>>

(* ------------------------------ bounds -------------------------------- *)

\* longest dataset handed to the segmenter specification
MaxLen == 4
\* x values are 1..MaxX
MaxX == 2
\* longest dataset of the component specification
MaxPoints == 2
\* handler invocations in one behaviour
MaxEvents == 2
\* nested render calls after which the JavaScript stack is taken to overflow
MaxDepth == 3

(* --------------------------- JavaScript values ------------------------ *)

Null == <<"null">>
Undefined == <<"undefined">>
True == <<"boolean", TRUE>>
Num(n) == <<"number", n>>
Str(s) == <<"string", s>>
Obj(o) == <<"object", o>>
Arr(a) == <<"array", a>>
Fn(name) == <<"function", name>>

\* the value is truthy in a JavaScript condition (a || b, if (a))
Truthy(v) ==
  /\ v # Null
  /\ v # Undefined
  /\ v # <<"boolean", FALSE>>
  /\ v # Str("")
  /\ v # Num(0)

EmptyObject == <<>>

\* obj[key], undefined when the object has no such key
get(obj, key) == IF key \in DOMAIN obj THEN obj[key] ELSE Undefined

\* obj[key] where the member is itself an object; an absent member spreads as {}
member(obj, key) == IF key \in DOMAIN obj THEN obj[key] ELSE EmptyObject

\* lodash assign(target, source): own keys of the source overwrite the target's
assign(a, b) ==
  [k \in DOMAIN a \cup DOMAIN b |-> IF k \in DOMAIN b THEN b[k] ELSE a[k]]

\* lodash defaults(target, source): the source fills only the keys the target lacks
defaults(a, b) ==
  [k \in DOMAIN a \cup DOMAIN b |-> IF k \in DOMAIN a THEN a[k] ELSE b[k]]

\* Array.prototype.slice(from, to) with 0-based from, exclusive to
slice(s, from, to) == SubSeq(s, from + 1, to)

(* ------------------------------ segmenter ----------------------------- *)

\* datum.y === null || typeof datum.y === "undefined"
IsGap(datum) == datum.y = Null \/ datum.y = Undefined

\* a sort that puts an element behind the later elements of equal x
RECURSIVE sortByUnstable(_)
sortByUnstable(dataset) ==
  IF dataset = <<>> THEN <<>>
  ELSE LET head == Head(dataset)
           rest == sortByUnstable(Tail(dataset))
       IN SelectSeq(rest, LAMBDA p : p.x <= head.x) \o <<head>>
            \o SelectSeq(rest, LAMBDA p : p.x > head.x)

\* lodash sortBy(dataset, "x"): a new array, ascending by x, stable
RECURSIVE sortBy(_)
sortBy(dataset) ==
  IF dataset = <<>> THEN <<>>
  ELSE LET head == Head(dataset)
           rest == sortBy(Tail(dataset))
       IN SelectSeq(rest, LAMBDA p : p.x < head.x) \o <<head>>
            \o SelectSeq(rest, LAMBDA p : p.x >= head.x)

\* the forEach of getDataSegments from 0-based index on: at a gap, push the run
\* before it and restart behind it.  Yields the segments pushed and the final
\* segmentStartIndex.
RECURSIVE scanGaps(_, _, _, _)
scanGaps(orderedData, index, segmentStartIndex, segments) ==
  IF index >= Len(orderedData)
  THEN [segments |-> segments, segmentStartIndex |-> segmentStartIndex]
  ELSE IF IsGap(orderedData[index + 1])
       THEN scanGaps(orderedData, index + 1, index + 1,
                     Append(segments, slice(orderedData, segmentStartIndex, index)))
       ELSE scanGaps(orderedData, index + 1, segmentStartIndex, segments)

\* getDataSegments without its closing filter of empty segments
getDataSegmentsUnfiltered(dataset) ==
  LET orderedData == sortBy(dataset)
      scan == scanGaps(orderedData, 0, 0, <<>>)
  IN Append(scan.segments,
            slice(orderedData, scan.segmentStartIndex, Len(orderedData)))

getDataSegments(dataset) ==
  LET orderedData == sortBy(dataset)
      scan == scanGaps(orderedData, 0, 0, <<>>)
      segments == Append(scan.segments,
                         slice(orderedData, scan.segmentStartIndex, Len(orderedData)))
  IN SelectSeq(segments, LAMBDA segment : Len(segment) > 0)

\* the dataset sorted in place, as Array.prototype.sort would leave it
datasetSortedInPlace(dataset) == sortBy(dataset)

\* the array handed to getDataSegments, after the call: sortBy copies, so it is
\* the array as it was
datasetAfterSegments(dataset) == dataset

(* ------------------------------- styles ------------------------------- *)

defaultStyles ==
  [markers |-> [opacity |-> Num(1)],
   data |-> [strokeWidth |-> Num(2), fill |-> Str("none"),
             stroke |-> Str("#756f6a"), opacity |-> Num(1)],
   labels |-> [padding |-> Num(5), fontFamily |-> Str("Helvetica"),
               fontSize |-> Num(10), strokeWidth |-> Num(0),
               stroke |-> Str("transparent"), textAnchor |-> Str("start")]]

\* getStyles: parent, data, labels and line; it returns no markers entry
getStyles(p) ==
  LET style == p.style
  IN [parent |-> defaults([width |-> Str("100%"), height |-> Str("auto")],
                          member(style, "parent")),
      data |-> defaults(member(style, "data"), defaultStyles.data),
      labels |-> defaults(member(style, "labels"), defaultStyles.labels),
      line |-> member(style, "line")]

\* Helpers.evaluateStyle: a style without functional values comes back as it is
evaluateStyle(style, datum) == style

\* getLabelStyle: fill falls back to style.line.stroke, padding to 0
getLabelStyle(style, datum) ==
  LET fill == get(style.line, "stroke")
      padding == IF Truthy(get(style.labels, "padding"))
                 THEN style.labels.padding ELSE Num(0)
      labelStyle == defaults(style.labels, [fill |-> fill, padding |-> padding])
  IN evaluateStyle(labelStyle, datum)

(* ------------------------------- scales ------------------------------- *)

width == 450
height == 300
padding == 50
\* the domain prop, given as one array for both axes
domain == <<0, 10>>

\* Helpers.getRange: the x axis runs left to right inside the padding, the y axis
\* bottom to top
getRange(axis) ==
  IF axis = "x" THEN <<padding, width - padding>> ELSE <<height - padding, padding>>

\* Scale.getBaseScale(...).domain(...).range(...): the linear scale of an axis
scale(axis, v) ==
  LET r == getRange(axis)
  IN Num(r[1] + ((r[2] - r[1]) \div (domain[2] - domain[1])) * (v - domain[1]))

\* Data.getData: with the default accessors "x" and "y" the points of props.data,
\* in the order given
getData(p) == p.data

(* ------------------------------- render ------------------------------- *)

\* this.state[kind + "State"][index]; an index never stored spreads as nothing
stored(elementState, index) ==
  IF index \in DOMAIN elementState THEN elementState[index] ELSE EmptyObject

\* the lineProps of one segment (its scale left out); dataState is not consulted
lineProps(p, style, data, index) ==
  [key |-> Str("line-segment-" \o ToString(index)),
   interpolation |-> p.interpolation,
   style |-> Obj(style.data),
   index |-> Num(index),
   data |-> data]

\* renderLine: one LineSegment per data segment, indexed from 0
renderLine(p, st, style, dataSegments) ==
  [i \in 1..Len(dataSegments) |-> lineProps(p, style, dataSegments[i], i - 1)]

\* the function given as the labels prop: datum => datum.x === 1 ? "first" : undefined
labelsFunction(datum) == IF datum.x = 1 THEN Str("first") ELSE Undefined

\* Helpers.evaluateProp: a function is applied to the datum, anything else is the value
evaluateProp(prop, datum) ==
  IF prop[1] = "function" THEN labelsFunction(datum) ELSE prop

\* array[index], undefined outside the array
at(array, index) ==
  IF index + 1 \in 1..Len(array) THEN array[index + 1] ELSE Undefined

\* getLabelText with the operands of || exchanged
getLabelTextPropFirst(p, datum, index) ==
  LET propsLabel == IF p.labels[1] = "array"
                    THEN at(p.labels[2], index) ELSE evaluateProp(p.labels, datum)
  IN IF Truthy(propsLabel) THEN propsLabel ELSE datum.label

\* getLabelText: datum.label || propsLabel
getLabelText(p, datum, index) ==
  LET propsLabel == IF p.labels[1] = "array"
                    THEN at(p.labels[2], index) ELSE evaluateProp(p.labels, datum)
  IN IF Truthy(datum.label) THEN datum.label ELSE propsLabel

\* sharedProps = {index, datum, x, y}
sharedProps(datum, index) ==
  [index |-> Num(index), datum |-> Obj(datum),
   x |-> scale("x", datum.x), y |-> scale("y", datum.y[2])]

\* the first argument of the assign that builds markerProps
markerBase(style, datum, index) ==
  [key |-> Str("marker-" \o ToString(index)),
   style |-> evaluateStyle(get(style, "markers"), datum)]

\* markerProps with the stored state spread first, under everything else
markerPropsStateFirst(p, st, style, datum, index) ==
  assign(assign(assign(stored(st.markersState, index),
                       markerBase(style, datum, index)),
                sharedProps(datum, index)),
         p.markerComponent)

\* markerProps = assign(base, sharedProps, markerComponent.props, markersState[index])
markerProps(p, st, style, datum, index) ==
  assign(assign(assign(markerBase(style, datum, index),
                       sharedProps(datum, index)),
                p.markerComponent),
         stored(st.markersState, index))

\* the first argument of the assign that builds labelProps
labelBase(style, datum, index, text) ==
  LET labelStyle == getLabelStyle(style, datum)
  IN [key |-> Str("label-" \o ToString(index)),
      dy |-> get(labelStyle, "padding"),
      textAnchor |-> get(labelStyle, "textAnchor"),
      verticalAnchor |-> IF Truthy(get(labelStyle, "verticalAnchor"))
                         THEN labelStyle.verticalAnchor ELSE Str("end"),
      style |-> Obj(labelStyle),
      text |-> text]

\* labelProps with labelComponent.props spread last, over everything else
labelPropsComponentLast(p, st, style, datum, index, text) ==
  assign(assign(assign(labelBase(style, datum, index, text),
                       sharedProps(datum, index)),
                stored(st.labelsState, index)),
         p.labelComponent)

\* labelProps = assign(base, labelComponent.props, sharedProps, labelsState[index])
labelProps(p, st, style, datum, index, text) ==
  assign(assign(assign(labelBase(style, datum, index, text),
                       p.labelComponent),
                sharedProps(datum, index)),
         stored(st.labelsState, index))

\* the test that decides whether a marker gets a label
hasLabel(p, text) == Truthy(text) \/ p.labels = True

\* one entry of dataset.map in renderMarkersAndLabels: nothing for a gap, else the
\* marker and, when there is text or labels === true, the label grouped with it
renderMarkerAndLabel(p, st, style, datum, index) ==
  IF IsGap(datum)
  THEN [marker |-> EmptyObject, label |-> EmptyObject, text |-> Undefined]
  ELSE LET text == getLabelText(p, datum, index)
       IN [marker |-> markerProps(p, st, style, datum, index),
           label |-> IF hasLabel(p, text)
                     THEN labelProps(p, st, style, datum, index, text)
                     ELSE EmptyObject,
           text |-> text]

\* renderMarkersAndLabels mapping over the data ordered by x
renderMarkersAndLabelsOrdered(p, st, style, dataset) ==
  [i \in 1..Len(dataset) |->
     renderMarkerAndLabel(p, st, style, sortBy(dataset)[i], i - 1)]

\* dataset.map((datum, index) => ...): the index is the place in the dataset given
renderMarkersAndLabels(p, st, style, dataset) ==
  [i \in 1..Len(dataset) |-> renderMarkerAndLabel(p, st, style, dataset[i], i - 1)]

\* a render pass that ended in the exception named
thrown(error) ==
  [outcome |-> error, transitions |-> 0, lines |-> <<>>, elements |-> <<>>,
   seriesLabel |-> EmptyObject]

\* what the component shows before it is mounted
NoOutput == thrown("unmounted")

\* renderSeriesLabel: nothing without seriesLabel; else the LineLabel at the last
\* point of the last segment.  Without any segment lastSegment and lastPoint are
\* undefined and reading lastPoint.x throws a TypeError.
renderSeriesLabel(p, style, dataSegments) ==
  IF ~Truthy(p.seriesLabel)
  THEN [outcome |-> "ok", seriesLabel |-> EmptyObject]
  ELSE IF dataSegments = <<>>
       THEN [outcome |-> "TypeError", seriesLabel |-> EmptyObject]
       ELSE LET lastSegment == dataSegments[Len(dataSegments)]
                lastPoint == lastSegment[Len(lastSegment)]
            IN [outcome |-> "ok",
                seriesLabel |-> [key |-> Str("line-label"),
                                 x |-> scale("x", lastPoint.x),
                                 y |-> scale("y", lastPoint.y[2]),
                                 label |-> p.seriesLabel,
                                 style |-> Obj(getLabelStyle(style, Undefined))]]

\* renderData: the dataset, its segments, then lines, markers with labels and the
\* series label; an exception in any of them leaves no output
renderData(p, st, style) ==
  LET given == getData(p)
      dataSegments == getDataSegments(given)
      dataset == datasetAfterSegments(given)
      series == renderSeriesLabel(p, style, dataSegments)
  IN IF series.outcome # "ok"
     THEN thrown(series.outcome)
     ELSE [outcome |-> "ok",
           transitions |-> 0,
           lines |-> renderLine(p, st, style, dataSegments),
           elements |-> renderMarkersAndLabels(p, st, style, dataset),
           seriesLabel |-> series.seriesLabel]

\* a test of animate that takes null for set
IsAnimatingNotUndefined(p) == p.animate # Undefined

\* if (this.props.animate)
IsAnimating(p) == Truthy(p.animate)

\* <VictoryLine {...this.props}/>: the nested element gets the props as they are
nestedProps(p) == p

\* VictoryTransition renders its child with animate set to null
transitionChildProps(p) == [p EXCEPT !.animate = Null]

\* render, with the render of the VictoryLine nested in the transition wrapper
\* followed to its end; depth counts the nested render calls.  The g and svg
\* elements around the output of renderData carry no element props.
RECURSIVE render(_, _, _)
render(p, st, depth) ==
  IF depth >= MaxDepth
  THEN thrown("RangeError")
  ELSE IF IsAnimating(p)
       THEN LET nested == render(transitionChildProps(nestedProps(p)), st, depth + 1)
            IN [nested EXCEPT !.transitions = @ + 1]
       ELSE renderData(p, st, getStyles(p))

(* ---------------------------- event handlers -------------------------- *)

ElementKinds == {"data", "markers", "labels"}

stateKey(kind) == kind \o "State"

\* what the handlers given in props.events return: for data the example of the
\* events prop, for markers and labels a style or a field the layout computes too
HandlerResults(kind) ==
  CASE kind = "data" -> {[style |-> Obj([stroke |-> Str("green")])]}
    [] kind = "markers" -> {[style |-> Obj([fill |-> Str("red")])], [x |-> Num(0)]}
    [] kind = "labels" -> {[text |-> Str("clicked")]}

\* the element of that kind and index is on screen, so its handlers can fire
rendered(o, kind, index) ==
  /\ o.outcome = "ok"
  /\ CASE kind = "data" -> index < Len(o.lines)
        [] kind = "markers" ->
             index < Len(o.elements) /\ o.elements[index + 1].marker # EmptyObject
        [] kind = "labels" ->
             index < Len(o.elements) /\ o.elements[index + 1].label # EmptyObject

\* Helpers.getEvents: the handler's return value is stored at [kind + "State"][index]
storeResult(st, kind, index, result) ==
  [st EXCEPT ![stateKey(kind)] = assign(@, index :> result)]

(* ------------------------------ the inputs ---------------------------- *)

\* the datasets of at most n points with y among ys and label among labels; ref is
\* the identity of the point object, numbered by its place in the dataset given
Datasets(n, xs, ys, labels) ==
  UNION {{[i \in 1..len |-> [ref |-> i - 1, x |-> f[i][1], y |-> f[i][2],
                             label |-> f[i][3]]] :
            f \in [1..len -> xs \X ys \X labels]} : len \in 0..n}

\* the labels prop: not given, the flag true, an array shorter than the data, or
\* a function of the datum
LabelsProps == {Undefined, True, Arr(<<Str("L0")>>), Fn("labelsFunction")}

\* props of a caller-supplied <Point/> and <Label/>: none, or some that the layout
\* computes too
MarkerComponents == {EmptyObject, [x |-> Num(7), symbol |-> Str("square")]}
LabelComponents == {EmptyObject, [x |-> Num(7), text |-> Str("custom")]}

defaultProps ==
  [data |-> <<>>, labels |-> Undefined, seriesLabel |-> Undefined,
   animate |-> Undefined, markerComponent |-> EmptyObject,
   labelComponent |-> EmptyObject, style |-> EmptyObject,
   interpolation |-> Str("linear")]

\* componentWillMount
componentWillMount ==
  [dataState |-> EmptyObject, markersState |-> EmptyObject, labelsState |-> EmptyObject]

(* ------------------------------- actions ------------------------------ *)

\* the props after a render pass: the dataset as getDataSegments left it
propsAfterRender(p) == [p EXCEPT !.data = datasetAfterSegments(@)]

\* a component constructed with props drawn from the sets given, not yet mounted
InitWith(datasets, labelsProps, seriesLabels, animates) ==
  /\ \E data \in datasets, labels \in labelsProps, seriesLabel \in seriesLabels,
        animate \in animates, markerComponent \in MarkerComponents,
        labelComponent \in LabelComponents :
        props = [defaultProps EXCEPT !.data = data, !.labels = labels,
                                     !.seriesLabel = seriesLabel, !.animate = animate,
                                     !.markerComponent = markerComponent,
                                     !.labelComponent = labelComponent]
  /\ state = componentWillMount
  /\ mounted = FALSE
  /\ out = NoOutput
  /\ nEvents = 0
  /\ again = FALSE

\* the component with event handlers: unlabelled points, labels shown or not
Init ==
  InitWith(Datasets(MaxPoints, {1, 2}, {Null, Num(1)}, {Undefined}),
           {Undefined, True}, {Undefined},
           {Undefined, Obj([duration |-> Num(500)])})

\* mounting: componentWillMount, then the first render
Mount ==
  /\ ~mounted
  /\ mounted' = TRUE
  /\ state' = componentWillMount
  /\ out' = render(props, componentWillMount, 0)
  /\ props' = propsAfterRender(props)
  /\ again' = FALSE
  /\ UNCHANGED nEvents

\* a handler of an element on screen returns result: it is stored and the
\* component renders again
onEvent(kind, index, result) ==
  /\ mounted
  /\ nEvents < MaxEvents
  /\ rendered(out, kind, index)
  /\ state' = storeResult(state, kind, index, result)
  /\ out' = render(props, storeResult(state, kind, index, result), 0)
  /\ props' = propsAfterRender(props)
  /\ nEvents' = nEvents + 1
  /\ again' = FALSE
  /\ UNCHANGED mounted

\* a further render pass with the props and the state as they are
Rerender ==
  /\ mounted
  /\ out' = render(props, state, 0)
  /\ props' = propsAfterRender(props)
  /\ again' = TRUE
  /\ UNCHANGED <<state, mounted, nEvents>>

Next ==
  \/ Mount
  \/ \E kind \in ElementKinds, index \in 0..(MaxPoints - 1) :
       \E result \in HandlerResults(kind) : onEvent(kind, index, result)
  \/ Rerender

Spec == Init /\ [][Next]_vars

\* the layout of every kind of props, rendered without events
LayoutInit ==
  InitWith(Datasets(MaxPoints, {1, 2}, {Null, Undefined, Num(1)}, {Undefined, Str("a")}),
           LabelsProps, {Undefined, Str("series")},
           {Undefined, Obj([duration |-> Num(500)])})

LayoutNext == Mount \/ Rerender

LayoutSpec == LayoutInit /\ [][LayoutNext]_vars

\* the segmenter on its own: any dataset, mounted once with the default props
SegInit ==
  /\ \E data \in Datasets(MaxLen, 1..MaxX, {Null, Undefined, Num(1)}, {Undefined}) :
        props = [defaultProps EXCEPT !.data = data]
  /\ state = componentWillMount
  /\ mounted = FALSE
  /\ out = NoOutput
  /\ nEvents = 0
  /\ again = FALSE

SegNext == Mount

SegSpec == SegInit /\ [][SegNext]_vars

\* values of the style prop: a stroke for the data or none, a fill or a vertical
\* anchor for the labels or neither, a line entry with a stroke or none
Styles ==
  {assign(assign(data, labels), line) :
     data \in {EmptyObject, [data |-> [stroke |-> Str("red")]]},
     labels \in {EmptyObject, [labels |-> [fill |-> Str("blue")]],
                 [labels |-> [verticalAnchor |-> Str("middle")]]},
     line \in {EmptyObject, [line |-> [stroke |-> Str("green")]]}}

\* the component given a style: labelled or unlabelled points, labels shown or
\* not, with or without a series label, the default marker and label components
StyleInit ==
  /\ \E data \in Datasets(MaxPoints, {1, 2}, {Null, Num(1)}, {Undefined, Str("a")}),
        labels \in {Undefined, True}, seriesLabel \in {Undefined, Str("series")},
        style \in Styles :
        props = [defaultProps EXCEPT !.data = data, !.labels = labels,
                                     !.seriesLabel = seriesLabel, !.style = style]
  /\ state = componentWillMount
  /\ mounted = FALSE
  /\ out = NoOutput
  /\ nEvents = 0
  /\ again = FALSE

StyleNext == Mount \/ Rerender

StyleSpec == StyleInit /\ [][StyleNext]_vars

(* ------------------------------- claims ------------------------------- *)

\* the segments of the last render pass, as renderLine handed them on
Segments == [i \in 1..Len(out.lines) |-> out.lines[i].data]

RECURSIVE Flatten(_)
Flatten(segments) ==
  IF segments = <<>> THEN <<>> ELSE Head(segments) \o Flatten(Tail(segments))

\* every key of b is a key of a with the same value
Includes(a, b) == \A k \in DOMAIN b : k \in DOMAIN a /\ a[k] = b[k]

\* C1: the segments of getDataSegments(D), concatenated in order, are the non-gap
\* points of D, each exactly once, ascending by x, points of equal x in the order
\* they have in D; no gap point is in any segment.
C1_SegmentsAreSortedNonGaps ==
  mounted =>
    LET r == Flatten(Segments)
        data == props.data
    IN /\ Len(r) = Cardinality({i \in 1..Len(data) : ~IsGap(data[i])})
       /\ \A i \in 1..Len(r) :
            /\ ~IsGap(r[i])
            /\ r[i].ref + 1 \in 1..Len(data)
            /\ data[r[i].ref + 1] = r[i]
       /\ \A i, j \in 1..Len(r) :
            i < j => /\ r[i].ref # r[j].ref
                     /\ r[i].x <= r[j].x
                     /\ (r[i].x = r[j].x => r[i].ref < r[j].ref)

\* C1's case: a dataset out of order with a gap and two non-gap points of equal x,
\* segmented into two segments
C1_Witness ==
  /\ mounted
  /\ Len(out.lines) = 2
  /\ \E i, j \in 1..Len(props.data) :
       /\ i < j
       /\ props.data[i].x = props.data[j].x
       /\ ~IsGap(props.data[i]) /\ ~IsGap(props.data[j])
  /\ \E i, j \in 1..Len(props.data) : i < j /\ props.data[i].x > props.data[j].x

\* the place of a point in the x-sorted order of the dataset, ties by place given
Rank(d, data) ==
  Cardinality({i \in 1..Len(data) :
                 \/ data[i].x < d.x
                 \/ data[i].x = d.x /\ data[i].ref < d.ref})

\* a gap point lies between the two points in the x-sorted order
GapBetween(d, e, data) ==
  \E i \in 1..Len(data) :
    /\ IsGap(data[i])
    /\ \/ Rank(d, data) < Rank(data[i], data) /\ Rank(data[i], data) < Rank(e, data)
       \/ Rank(e, data) < Rank(data[i], data) /\ Rank(data[i], data) < Rank(d, data)

InSegment(d, segment) == \E k \in 1..Len(segment) : segment[k].ref = d.ref

\* C8: every segment is non-empty, and two non-gap points are in the same segment
\* exactly when no gap point lies between them in the x-sorted order.
C8_SegmentsAreMaximalRuns ==
  mounted =>
    LET data == props.data
    IN /\ \A s \in 1..Len(Segments) : Len(Segments[s]) > 0
       /\ \A i, j \in 1..Len(data) :
            (~IsGap(data[i]) /\ ~IsGap(data[j])) =>
              ((\E s \in 1..Len(Segments) :
                  InSegment(data[i], Segments[s]) /\ InSegment(data[j], Segments[s]))
               <=> ~GapBetween(data[i], data[j], data))

\* C8's case: a leading gap and two adjacent gaps in the x-sorted order, and one
\* segment left
C8_Witness ==
  /\ mounted
  /\ Len(props.data) = 3
  /\ Cardinality({i \in 1..Len(props.data) : IsGap(props.data[i])}) = 2
  /\ \E i \in 1..Len(props.data) :
       ~IsGap(props.data[i]) /\ Rank(props.data[i], props.data) = 2
  /\ Len(out.lines) = 1

(* the props of the element of a kind at a JavaScript index, nothing when it is
   not on screen *)
elementProps(o, kind, index) ==
  IF ~rendered(o, kind, index) THEN EmptyObject
  ELSE CASE kind = "data" -> o.lines[index + 1]
         [] kind = "markers" -> o.elements[index + 1].marker
         [] kind = "labels" -> o.elements[index + 1].label

Indices == 0..(MaxPoints - 1)

\* C2: when a handler of the marker at index i returns a partial state, the
\* merged props of marker i after the next render include it, and the merged
\* props of every other marker are as they were.
C2_MarkerEventScoped ==
  [][\A i \in Indices : \A result \in HandlerResults("markers") :
       onEvent("markers", i, result) =>
         /\ Includes(elementProps(out', "markers", i), result)
         /\ \A j \in Indices \ {i} :
              elementProps(out', "markers", j) = elementProps(out, "markers", j)]_vars

\* C2's case: a second marker handler has returned, for a marker other than the
\* first one's, and both markers are on screen with their stored state
C2_Witness ==
  /\ nEvents = 2
  /\ \E i, j \in Indices :
       /\ i # j
       /\ stored(state.markersState, i) = [style |-> Obj([fill |-> Str("red")])]
       /\ stored(state.markersState, j) # EmptyObject
       /\ rendered(out, "markers", i) /\ rendered(out, "markers", j)
       /\ Includes(elementProps(out, "markers", i), stored(state.markersState, i))

\* C3: for every element kind, the props of the element on screen at an index
\* include the override stored in ElementState for that kind and index.
C3_StoredOverrideApplied ==
  \A kind \in ElementKinds : \A index \in Indices :
    rendered(out, kind, index) =>
      Includes(elementProps(out, kind, index), stored(state[stateKey(kind)], index))

\* the datum a marker or label at position i of the elements is laid out for
datumAt(i) == props.data[i]

\* the fields the layout computes for a marker: its base, then sharedProps
markerComputed(i) ==
  assign(markerBase(getStyles(props), datumAt(i), i - 1), sharedProps(datumAt(i), i - 1))

\* the fields the layout computes for a label: its base, then sharedProps
labelComputed(i) ==
  assign(labelBase(getStyles(props), datumAt(i), i - 1, out.elements[i].text),
         sharedProps(datumAt(i), i - 1))

\* the value of key k from the first of the sources, highest priority first,
\* that supplies it
FromFirst(sources, k) ==
  LET s == CHOOSE n \in 1..Len(sources) :
             /\ k \in DOMAIN sources[n]
             /\ \A m \in 1..(n - 1) : k \notin DOMAIN sources[m]
  IN sources[s][k]

\* the props are those of the sources merged, highest priority first
MergedFrom(elementprops, sources) ==
  /\ DOMAIN elementprops = UNION {DOMAIN sources[n] : n \in 1..Len(sources)}
  /\ \A k \in DOMAIN elementprops : elementprops[k] = FromFirst(sources, k)

C5_RenderNeverThrows == mounted => out.outcome = "ok"

\* C6: a render with animate set goes through the transition wrapper once and
\* then reaches renderData: the nested render does not wrap again.
C6_TransitionNotRetriggered ==
  mounted =>
    /\ out.outcome # "RangeError"
    /\ out.transitions = IF Truthy(props.animate) THEN 1 ELSE 0

\* C6's case: animate is set and the render pass has come back from renderData
C6_Witness ==
  /\ mounted
  /\ Truthy(props.animate)
  /\ out.outcome = "ok"
  /\ out.transitions = 1
  /\ Len(out.lines) > 0

CarriesComputed(i, k) ==
  LET d == datumAt(i)
      marker == out.elements[i].marker
  IN CASE k = "index" -> marker.index = Num(d.ref)
       [] k = "x" -> marker.x = scale("x", d.x)
       [] k = "y" -> marker.y = scale("y", d.y[2])

LabelsPropResult(d, index) ==
  CASE props.labels[1] = "array" ->
         IF index < Len(props.labels[2]) THEN props.labels[2][index + 1] ELSE Undefined
    [] props.labels[1] = "function" -> labelsFunction(d)
    [] OTHER -> props.labels

\* C10: for every non-gap point the label text is the point's own label when it
\* has one, else what the labels prop yields for it; with no text from either
\* and labels not true the point gets a marker and no label.
C10_LabelText ==
  out.outcome = "ok" =>
    \A i \in 1..Len(out.elements) :
      LET d == datumAt(i)
          e == out.elements[i]
      IN ~IsGap(d) =>
           /\ e.text = IF Truthy(d.label) THEN d.label ELSE LabelsPropResult(d, i - 1)
           /\ (~Truthy(d.label) /\ ~Truthy(LabelsPropResult(d, i - 1))
                 /\ props.labels # True)
                => (e.marker # EmptyObject /\ e.label = EmptyObject)
           /\ Truthy(e.text) => e.label # EmptyObject

\* C10's case: one point with a label of its own where the labels array has an
\* entry too, and a second point without either, rendered without a label
C10_Witness ==
  /\ out.outcome = "ok"
  /\ Len(out.elements) = 2
  /\ props.labels = Arr(<<Str("L0")>>)
  /\ props.data[1].label = Str("a") /\ out.elements[1].text = Str("a")
  /\ rendered(out, "labels", 0)
  /\ ~IsGap(props.data[2]) /\ props.data[2].label = Undefined
  /\ rendered(out, "markers", 1) /\ ~rendered(out, "labels", 1)

\* the labels entry of the style prop as the caller gave it
givenLabels == member(props.style, "labels")

\* the fill the claim expects of a label drawn beside a line of the stroke given
ExpectedFill(stroke) ==
  IF "fill" \in DOMAIN givenLabels THEN givenLabels.fill ELSE stroke

\* the vertical anchor the claim expects of a point label
ExpectedVerticalAnchor ==
  IF "verticalAnchor" \in DOMAIN givenLabels
  THEN givenLabels.verticalAnchor ELSE Str("end")

\* C11: when the labels style gives no fill, the fill of every point label and
\* of the series label is the stroke every line segment is drawn with (the data
\* style's stroke, the default "#756f6a" included); a fill given in the labels
\* style is the fill used; and a point label's vertical anchor is "end" unless
\* the labels style gives one.
C11_LabelFillIsLineStroke ==
  out.outcome = "ok" =>
    \A l \in 1..Len(out.lines) :
      LET stroke == out.lines[l].style[2].stroke
      IN /\ \A i \in 1..Len(out.elements) :
              LET label == out.elements[i].label
              IN label # EmptyObject =>
                   /\ get(label.style[2], "fill") = ExpectedFill(stroke)
                   /\ label.verticalAnchor = ExpectedVerticalAnchor
         /\ out.seriesLabel # EmptyObject =>
              get(out.seriesLabel.style[2], "fill") = ExpectedFill(stroke)

====
